---- MODULE Spec2Model ----
(***************************************************************************)
(* Model of the AI helper layer of the Power & Gas assistant              *)
(* (src/ai_utils.py) and of the two pages that call it                     *)
(* (src/pages/01_Chatbot.py, src/pages/02_Emails.py).                      *)
(*                                                                         *)
(* A Python str is a sequence of atoms.  An atom is a one-character        *)
(* string, or one string literal of the source taken whole (the literals   *)
(* of the prompts and the canned answers; none of them contains a          *)
(* fallback keyword).  Python's None is the one-atom sequence None, whose  *)
(* atom occurs in no text.                                                 *)
(***************************************************************************)
EXTENDS Integers, Sequences, FiniteSets, TLC

\* ------------------------------------------------------------------ bounds
\* Longest text, counted in chunks, given to reponse_de_secours.
MaxChunks == 3
\* Longest conversation history given to construire_messages.
MaxHist == 2
\* Most questions asked in one chatbot session.
MaxTurns == 2

\* ------------------------------------------------------------------- state
VARIABLES
    Groq,               \* ai_utils.Groq: "class" when the SDK imported, "None" otherwise
    environ,            \* os.getenv("GROQ_API_KEY"): a str or None
    secrets,            \* what st.secrets.get("GROQ_API_KEY") does
    session_state,      \* st.session_state["energy_chat_history"]
    pc,                 \* position of the running call
    caller,             \* who started the running call
    email,              \* arguments of generer_reponse_email
    args,               \* arguments of generer_reponse_ia
    messages_complets,  \* local of generer_reponse_ia
    cle_resolue,        \* local of generer_reponse_ia
    reply,              \* what the completion service does with the request
    network,            \* clients built and requests sent by the running call
    ret,                \* value returned by the running call
    objets              \* the list the caller passed as history, as it is now,
                        \* and which object each entry of messages_complets is

vars == <<Groq, environ, secrets, session_state, pc, caller, email, args,
          messages_complets, cle_resolue, reply, network, ret, objets>>

\* ------------------------------------------------------------ Python values
None == <<"<None>">>

\* A local that has not been assigned yet.
Unset == <<"<unset>">>

\* Python truthiness of an Optional[str]: None and "" are falsy.
Truthy(x) == x # None /\ x # <<>>

\* Python's `x or ""`.
OrEmpty(x) == IF Truthy(x) THEN x ELSE <<>>

Whitespace == {" ", "\n", "\t"}

RECURSIVE LStrip(_)
LStrip(s) == IF s # <<>> /\ Head(s) \in Whitespace THEN LStrip(Tail(s)) ELSE s

RECURSIVE RStrip(_)
RStrip(s) ==
    IF s # <<>> /\ s[Len(s)] \in Whitespace
    THEN RStrip(SubSeq(s, 1, Len(s) - 1))
    ELSE s

\* str.strip()
Strip(s) == RStrip(LStrip(s))

\* str.lower(), one atom at a time.
LowerChar(c) ==
    CASE c = "A" -> "a" [] c = "B" -> "b" [] c = "C" -> "c" [] c = "D" -> "d"
      [] c = "E" -> "e" [] c = "F" -> "f" [] c = "G" -> "g" [] c = "H" -> "h"
      [] c = "I" -> "i" [] c = "J" -> "j" [] c = "K" -> "k" [] c = "L" -> "l"
      [] c = "M" -> "m" [] c = "N" -> "n" [] c = "O" -> "o" [] c = "P" -> "p"
      [] c = "Q" -> "q" [] c = "R" -> "r" [] c = "S" -> "s" [] c = "T" -> "t"
      [] c = "U" -> "u" [] c = "V" -> "v" [] c = "W" -> "w" [] c = "X" -> "x"
      [] c = "Y" -> "y" [] c = "Z" -> "z"
      [] c = "Rédige une réponse " -> "rédige une réponse "
      [] c = ".\nE-mail reçu:\n---\n" -> ".\ne-mail reçu:\n---\n"
      [] c = "Contraintes supplémentaires: " -> "contraintes supplémentaires: "
      [] c = "Write the reply " -> "write the reply "
      [] c = ".\nIncoming email:\n---\n" -> ".\nincoming email:\n---\n"
      [] c = "Additional constraints: " -> "additional constraints: "
      [] c = "in English" -> "in english"
      [] OTHER -> c

Lower(s) == [i \in 1..Len(s) |-> LowerChar(s[i])]

\* Python's `mot in texte` on str: mot occurs as a contiguous slice.
Contains(mot, texte) ==
    \E i \in 0..(Len(texte) - Len(mot)) :
        SubSeq(texte, i + 1, i + Len(mot)) = mot

\* ------------------------------------------------------- reponse_de_secours
mots_cles_tarifs ==
    << <<"t","a","r","i","f">>, <<"p","r","i","x">>, <<"k","w","h">>,
       <<"a","u","g","m","e","n","t","a","t","i","o","n">>,
       <<"f","a","c","t","u","r","e">> >>

mots_cles_gaz ==
    << <<"g","a","z">>, <<"m","3">>, <<"p","c","s">>, <<"p","c","i">>,
       <<"c","o","e","f","f","i","c","i","e","n","t">> >>

\* any(mot in texte for mot in mots)
AnyIn(mots, texte) == \E k \in 1..Len(mots) : Contains(mots[k], texte)

REPONSE_TARIFS == <<"Sans accès à l'IA, voici une indication générale : les tarifs électricité et gaz évoluent (CSPE/CTA/TURPE) ...">>
REPONSE_GAZ == <<"Pour le gaz, la facturation se fait en kWh via un coefficient de conversion (m³ → kWh) ...">>
REPONSE_GENERIQUE == <<"Je n'ai pas accès au service d'IA pour le moment. Donnez plus de détails ...">>

\* Mutant: the gas keywords are tested before the tariff keywords.
reponse_de_secours_gaz_first(texte_utilisateur, domaine) ==
    LET texte == Lower(texte_utilisateur) IN
    IF domaine = "energy" /\ AnyIn(mots_cles_gaz, texte) THEN REPONSE_GAZ
    ELSE IF domaine = "energy" /\ AnyIn(mots_cles_tarifs, texte) THEN REPONSE_TARIFS
    ELSE REPONSE_GENERIQUE

reponse_de_secours(texte_utilisateur, domaine) ==
    LET texte == Lower(texte_utilisateur) IN
    IF domaine = "energy" /\ AnyIn(mots_cles_tarifs, texte) THEN REPONSE_TARIFS
    ELSE IF domaine = "energy" /\ AnyIn(mots_cles_gaz, texte) THEN REPONSE_GAZ
    ELSE REPONSE_GENERIQUE

\* ------------------------------------------------------- recuperer_cle_groq
Digits == <<"0", "1", "2", "3", "4", "5", "6", "7", "8", "9">>

\* str(n) of a non-negative int.
RECURSIVE IntStr(_)
IntStr(n) ==
    IF n < 10 THEN <<Digits[n + 1]>>
    ELSE IntStr(n \div 10) \o <<Digits[(n % 10) + 1]>>

\* A secret store: kind "raise" (streamlit missing or no secrets file),
\* "absent" (get returns None), "str" (value s) or "int" (value n).
Secret(kind, s, n) == [kind |-> kind, s |-> s, n |-> n]

\* `if cle_secrete:` on the value the store returned.
SecretTruthy(sec) ==
    \/ sec.kind = "str" /\ sec.s # <<>>
    \/ sec.kind = "int" /\ sec.n # 0

\* str(cle_secrete)
SecretStr(sec) == IF sec.kind = "int" THEN IntStr(sec.n) ELSE sec.s

\* Mutant: the environment variable is preferred to the explicit argument.
recuperer_cle_groq_env_first(cle_explicite) ==
    IF Truthy(environ) THEN environ
    ELSE IF Truthy(cle_explicite) /\ Truthy(Strip(cle_explicite))
    THEN Strip(cle_explicite)
    ELSE IF secrets.kind # "raise" /\ SecretTruthy(secrets) THEN SecretStr(secrets)
    ELSE None

recuperer_cle_groq(cle_explicite) ==
    IF Truthy(cle_explicite) /\ Truthy(Strip(cle_explicite))
    THEN Strip(cle_explicite)
    ELSE IF Truthy(environ) THEN environ
    ELSE IF secrets.kind # "raise" /\ SecretTruthy(secrets) THEN SecretStr(secrets)
    ELSE None

\* ------------------------------------------------------ construire_messages
\* An Optional[List]: None, or the list.
NoneList == [none |-> TRUE, list |-> <<>>]
SomeList(l) == [none |-> FALSE, list |-> l]

\* `if historique:` on an Optional[List].
ListTruthy(h) == ~h.none /\ h.list # <<>>

\* One entry of a history.  dict = FALSE is an entry that is no dict (it has
\* no .get).  A key that is missing has has_role / has_content = FALSE.
Entry(has_role, role, has_content, content) ==
    [dict |-> TRUE, has_role |-> has_role, role |-> role,
     has_content |-> has_content, content |-> content]
NotADict ==
    [dict |-> FALSE, has_role |-> FALSE, role |-> "", has_content |-> FALSE,
     content |-> None]

\* The dict {"role": role, "content": content}.
Message(role, content) == Entry(TRUE, role, TRUE, content)

\* message.get("role", "user") and message.get("content", "")
GetRole(message) == IF message.has_role THEN message.role ELSE "user"
GetContent(message) == IF message.has_content THEN message.content ELSE <<>>

\* The loop over historique, up to the first entry that raises.
RECURSIVE HistoryLoop(_)
HistoryLoop(historique) ==
    IF historique = <<>> THEN <<>>
    ELSE LET message == Head(historique) IN
         IF Truthy(GetContent(message))
         THEN <<Message(GetRole(message), GetContent(message))>>
                  \o HistoryLoop(Tail(historique))
         ELSE HistoryLoop(Tail(historique))

\* message.get raises AttributeError on an entry that is no dict.
HistoryRaises(historique) ==
    ListTruthy(historique)
        /\ \E i \in 1..Len(historique.list) : ~historique.list[i].dict

\* Mutant: the test `if contenu:` is dropped.
construire_messages_keep_empty(message_utilisateur, prompt_systeme, historique) ==
    (IF Truthy(prompt_systeme) THEN <<Message("system", prompt_systeme)>> ELSE <<>>)
    \o (IF ListTruthy(historique)
        THEN [i \in 1..Len(historique.list) |->
                 Message(GetRole(historique.list[i]), GetContent(historique.list[i]))]
        ELSE <<>>)
    \o (IF Truthy(message_utilisateur)
        THEN <<Message("user", message_utilisateur)>> ELSE <<>>)

\* The list construire_messages returns when it does not raise.
construire_messages(message_utilisateur, prompt_systeme, historique) ==
    (IF Truthy(prompt_systeme) THEN <<Message("system", prompt_systeme)>> ELSE <<>>)
    \o (IF ListTruthy(historique) THEN HistoryLoop(historique.list) ELSE <<>>)
    \o (IF Truthy(message_utilisateur)
        THEN <<Message("user", message_utilisateur)>> ELSE <<>>)

\* The list object passed as historique once construire_messages is over: the
\* loop reads it with .get and writes to the new list only.
\* Mutant: the entries with empty content are removed from historique itself.
HistoriqueApres_drop_empty(historique) ==
    IF historique.none THEN historique
    ELSE SomeList(SelectSeq(historique.list,
                            LAMBDA e : ~e.dict \/ Truthy(GetContent(e))))

HistoriqueApres(historique) == historique

\* The indices of the entries of l that the loop keeps.
RECURSIVE KeptIndices(_, _)
KeptIndices(l, i) ==
    IF i > Len(l) THEN <<>>
    ELSE IF l[i].dict /\ Truthy(GetContent(l[i])) THEN <<i>> \o KeptIndices(l, i + 1)
    ELSE KeptIndices(l, i + 1)

\* Which object each entry of the returned list is: 0 for a dict that
\* construire_messages creates, i for the i-th entry of historique itself.
\* Mutant: the loop appends the history entry, not a new dict.
IdentitesMessages_shared(message_utilisateur, prompt_systeme, historique) ==
    (IF Truthy(prompt_systeme) THEN <<0>> ELSE <<>>)
    \o (IF ListTruthy(historique) THEN KeptIndices(historique.list, 1) ELSE <<>>)
    \o (IF Truthy(message_utilisateur) THEN <<0>> ELSE <<>>)

\* Every append of construire_messages is given a dict literal.
IdentitesMessages(message_utilisateur, prompt_systeme, historique) ==
    [i \in 1..Len(construire_messages(message_utilisateur, prompt_systeme, historique))
        |-> 0]

Objets(historique, identites) == [historique |-> historique, identites |-> identites]
NoObjets == Objets(NoneList, <<>>)

\* ------------------------------------------------------------- appeler_groq
\* What the SDK and the completion service do with one call: kind
\* "client_raise" (Groq() finds no key and raises), "raise" (the request
\* raises exc, or the response object has no first choice), or "content"
\* (the first choice's message content, a str or None).
Reply(kind, exc, content) == [kind |-> kind, exc |-> exc, content |-> content]
NoReply == Reply("none", "", None)

Outcome(raised, value, clients, requests) ==
    [raised |-> raised, value |-> value, clients |-> clients, requests |-> requests]

\* Mutant: the content is returned without .strip().
appeler_groq_no_strip(messages, modele, temperature, tokens_max, cle_api, rep) ==
    IF Groq = "None" THEN Outcome(TRUE, "RuntimeError", 0, 0)
    ELSE IF rep.kind = "client_raise" THEN Outcome(TRUE, rep.exc, 1, 0)
    ELSE IF rep.kind = "raise" THEN Outcome(TRUE, rep.exc, 1, 1)
    ELSE Outcome(FALSE, OrEmpty(rep.content), 1, 1)

\* raised: whether appeler_groq raises; value: the exception's name or the
\* str returned; clients, requests: clients constructed and requests sent.
appeler_groq(messages, modele, temperature, tokens_max, cle_api, rep) ==
    IF Groq = "None" THEN Outcome(TRUE, "RuntimeError", 0, 0)
    ELSE IF rep.kind = "client_raise" THEN Outcome(TRUE, rep.exc, 1, 0)
    ELSE IF rep.kind = "raise" THEN Outcome(TRUE, rep.exc, 1, 1)
    ELSE Outcome(FALSE, Strip(OrEmpty(rep.content)), 1, 1)

\* The request handed to client.chat.completions.create.
Request(messages, modele, temperature, tokens_max, cle_api) ==
    [model |-> modele, messages |-> messages, temperature |-> temperature,
     max_tokens |-> tokens_max, api_key |-> cle_api]

\* ------------------------------------------------------- generer_reponse_ia
MODELE_PAR_DEFAUT == "llama-3.1-8b-instant"
\* Temperatures are counted in hundredths.
TEMPERATURE_CHATBOT == 20
TEMPERATURE_EMAIL == 30
TOKENS_MAX_CHATBOT == 1200
TOKENS_MAX_EMAIL == 900

Args(message_utilisateur, prompt_systeme, messages, cle_api, modele, temperature, tokens_max, domaine_secours) ==
    [message_utilisateur |-> message_utilisateur, prompt_systeme |-> prompt_systeme,
     messages |-> messages, cle_api |-> cle_api, modele |-> modele,
     temperature |-> temperature, tokens_max |-> tokens_max,
     domaine_secours |-> domaine_secours]

NoArgs ==
    Args(None, None, NoneList, None, MODELE_PAR_DEFAUT, TEMPERATURE_CHATBOT,
         TOKENS_MAX_CHATBOT, "energy")

NoNetwork == [clients |-> 0, requests |-> 0, sent |-> <<>>, exc |-> ""]

\* `if not cle_resolue and Groq is None:`
CourtCircuit(cle) == ~Truthy(cle) /\ Groq = "None"

\* Mutant: the short circuit answers for the energy domain whatever the
\* fallback domain of the call.
SecoursCourtCircuit_energy(message_utilisateur, domaine_secours) ==
    reponse_de_secours(OrEmpty(message_utilisateur), "energy")

\* The return of the short circuit.
SecoursCourtCircuit(message_utilisateur, domaine_secours) ==
    reponse_de_secours(OrEmpty(message_utilisateur), domaine_secours)

\* Mutant: the handler answers for the energy domain whatever the fallback
\* domain of the call.
SecoursException_energy(message_utilisateur, domaine_secours) ==
    reponse_de_secours(OrEmpty(message_utilisateur), "energy")

\* The return of `except Exception:`.
SecoursException(message_utilisateur, domaine_secours) ==
    reponse_de_secours(OrEmpty(message_utilisateur), domaine_secours)

\* `if not modele: modele = MODELE_PAR_DEFAUT`
ModeleEffectif(modele) == IF modele = "" THEN MODELE_PAR_DEFAUT ELSE modele

\* ---------------------------------------------------- generer_reponse_email
\* The keys of tons_disponibles and langues_disponibles.
PROFESSIONNEL == <<"p", "r", "o", "f", "e", "s", "s", "i", "o", "n", "n", "e", "l">>
EMPATHIQUE == <<"e", "m", "p", "a", "t", "h", "i", "q", "u", "e">>
FERME == <<"f", "e", "r", "m", "e">>
CONVIVIAL == <<"c", "o", "n", "v", "i", "v", "i", "a", "l">>
FR == <<"f", "r">>
EN == <<"e", "n">>

\* Mutant: the tone is looked up without .lower().
TonChoisi_case_sensitive(ton) ==
    CASE ton = PROFESSIONNEL -> <<"professionnel et poli">>
      [] ton = EMPATHIQUE -> <<"empathique et rassurant">>
      [] ton = FERME -> <<"ferme mais courtois">>
      [] ton = CONVIVIAL -> <<"amical et accessible">>
      [] OTHER -> <<"professionnel et poli">>

\* tons_disponibles.get(ton.lower(), tons_disponibles["professionnel"])
TonChoisi(ton) ==
    LET t == Lower(ton) IN
    CASE t = PROFESSIONNEL -> <<"professionnel et poli">>
      [] t = EMPATHIQUE -> <<"empathique et rassurant">>
      [] t = FERME -> <<"ferme mais courtois">>
      [] t = CONVIVIAL -> <<"amical et accessible">>
      [] OTHER -> <<"professionnel et poli">>

\* langues_disponibles.get(langue.lower(), langues_disponibles["fr"])
LangueChoisie(langue) ==
    LET l == Lower(langue) IN
    CASE l = FR -> <<"en français">>
      [] l = EN -> <<"in English">>
      [] OTHER -> <<"en français">>

PROMPT_EMAIL_EN == <<"You are an assistant who writes clear, concise and well-structured email replies. ...">>
PROMPT_EMAIL_FR == <<"Tu es un assistant qui rédige des réponses d'e-mails claires, concises et structurées. ...">>

\* The system prompt: the English one for "en", the French one otherwise.
PromptEmail(langue) ==
    IF Lower(langue) = EN THEN PROMPT_EMAIL_EN ELSE PROMPT_EMAIL_FR

\* The user turn, with the clause of the extra instructions when they are
\* non-blank.
MessageEmail(texte_email, ton, langue, instructions_supplementaires) ==
    LET en == Lower(langue) = EN
        corps ==
            IF en
            THEN <<"Write the reply ">> \o LangueChoisie(langue) \o <<", tone ">>
                     \o TonChoisi(ton) \o <<".\nIncoming email:\n---\n">>
                     \o texte_email \o <<"\n---\n">>
            ELSE <<"Rédige une réponse ">> \o LangueChoisie(langue) \o <<", ton ">>
                     \o TonChoisi(ton) \o <<".\nE-mail reçu:\n---\n">>
                     \o texte_email \o <<"\n---\n">>
        prefix_contraintes ==
            IF en THEN <<"Additional constraints: ">>
            ELSE <<"Contraintes supplémentaires: ">>
    IN  IF Truthy(instructions_supplementaires)
            /\ Truthy(Strip(instructions_supplementaires))
        THEN corps \o prefix_contraintes \o Strip(instructions_supplementaires)
                 \o <<"\n">>
        ELSE corps

Email(texte_email, ton, langue, instructions_supplementaires) ==
    [texte_email |-> texte_email, ton |-> ton, langue |-> langue,
     instructions_supplementaires |-> instructions_supplementaires]

NoEmail == Email(<<>>, PROFESSIONNEL, FR, None)

\* Mutant: the fallback domain is left at its default, "energy".
generer_reponse_email_energy(e, cle_api, modele, temperature, tokens_max) ==
    Args(MessageEmail(e.texte_email, e.ton, e.langue, e.instructions_supplementaires),
         PromptEmail(e.langue), NoneList, cle_api, modele, temperature,
         tokens_max, "energy")

\* The arguments generer_reponse_email hands to generer_reponse_ia.
generer_reponse_email(e, cle_api, modele, temperature, tokens_max) ==
    Args(MessageEmail(e.texte_email, e.ton, e.langue, e.instructions_supplementaires),
         PromptEmail(e.langue), NoneList, cle_api, modele, temperature,
         tokens_max, "email")

\* ------------------------------------------------------------------- inputs
TXT_TARIF == <<"k", "W", "h">>
TXT_GAZ == <<"g", "a", "z">>
TXT_MIXTE == <<"G", "a", "z", " ", "k", "w", "h">>
TXT_AUTRE == <<"x">>

\* The pieces the texts given to reponse_de_secours are made of.
Chunks == {TXT_TARIF, TXT_GAZ, <<"M", "3">>, <<"p", "r", "i">>, <<"x">>, <<" ">>}

RECURSIVE TextsUpTo(_)
TextsUpTo(n) ==
    IF n = 0 THEN {<<>>}
    ELSE LET T == TextsUpTo(n - 1) IN T \cup {t \o c : t \in T, c \in Chunks}

Texts == TextsUpTo(MaxChunks)

Domaines == {"energy", "email", "autre"}

RECURSIVE SeqsUpTo(_, _)
SeqsUpTo(S, n) ==
    IF n = 0 THEN {<<>>}
    ELSE LET T == SeqsUpTo(S, n - 1) IN T \cup {Append(t, e) : t \in T, e \in S}

\* Entries of the histories given to construire_messages.
Entries ==
    {Entry(TRUE, "user", TRUE, TXT_TARIF), Entry(TRUE, "assistant", TRUE, TXT_AUTRE),
     Entry(TRUE, "assistant", TRUE, <<>>), Entry(TRUE, "user", TRUE, None),
     Entry(FALSE, "", TRUE, TXT_GAZ), Entry(TRUE, "user", FALSE, None), NotADict}

Histories == {NoneList} \cup {SomeList(l) : l \in SeqsUpTo(Entries, MaxHist)}

\* Entries of the histories given to generer_reponse_ia called on its own.
DirectEntries ==
    {Entry(TRUE, "user", TRUE, TXT_TARIF), Entry(TRUE, "assistant", TRUE, <<>>), NotADict}

DirectHistories == {NoneList} \cup {SomeList(l) : l \in SeqsUpTo(DirectEntries, MaxHist)}

PROMPT_CHATBOT == <<"Tu es un assistant expert en électricité et gaz en France. ...">>

ExplicitKeys == {None, <<>>, <<" ">>, <<" ", "a", "b", "c", " ">>, <<"k">>}
EnvKeys == {None, <<>>, <<" ">>, <<"e">>}
Secrets ==
    {Secret("raise", <<>>, 0), Secret("absent", <<>>, 0), Secret("str", <<>>, 0),
     Secret("str", <<"s">>, 0), Secret("int", <<>>, 0), Secret("int", <<>>, 42)}

\* Options of the model select boxes of the two pages.
Modeles == {"llama-3.1-8b-instant", "gemma2-9b-it", "llama-3.3-70b-versatile"}

Temperatures == {TEMPERATURE_CHATBOT, TEMPERATURE_EMAIL}

\* tokens_max the pages pass.
TOKENS_PAGE_CHATBOT == 800
TOKENS_PAGE_EMAIL == 700

\* What st.chat_input returns: None, or the non-empty text submitted.
Questions == {TXT_TARIF, TXT_GAZ, TXT_AUTRE}

Tons == {PROFESSIONNEL, EMPATHIQUE, FERME, CONVIVIAL, <<"F", "e", "r", "m", "e">>,
         <<"I", "N", "V", "A", "L", "I", "D">>}
Langues == {FR, EN, <<"E", "N">>, <<"d", "e">>}
Instructions == {None, <<>>, <<" ">>, <<" ", "c", " ">>}
TextesEmail == {TXT_AUTRE, TXT_MIXTE}

\* What the SDK and the service may do with a call made with key cle.
Replies(cle) ==
    {Reply("raise", "AuthenticationError", None),
     Reply("raise", "APIConnectionError", None),
     Reply("raise", "IndexError", None),
     Reply("content", "", None), Reply("content", "", <<>>),
     Reply("content", "", <<"B">>), Reply("content", "", <<" ", "B", " ", "j", "\n">>)}
    \cup (IF Truthy(cle) THEN {} ELSE {Reply("client_raise", "GroqError", None)})

\* ------------------------------------------------------------------ actions
Idle ==
    /\ pc = "idle" /\ caller = "none" /\ email = NoEmail /\ args = NoArgs
    /\ messages_complets = <<>> /\ cle_resolue = Unset /\ reply = NoReply
    /\ network = NoNetwork /\ ret = Unset /\ objets = NoObjets

Init ==
    /\ Groq \in {"class", "None"}
    /\ environ \in {None, <<"e">>}
    /\ secrets \in {Secret("raise", <<>>, 0), Secret("str", <<"s">>, 0)}
    /\ session_state = <<>>
    /\ Idle

\* Entry of generer_reponse_ia with arguments a, on behalf of c.
BeginCall(c, a) ==
    /\ caller' = c
    /\ args' = a
    /\ pc' = "build"
    /\ messages_complets' = <<>>
    /\ cle_resolue' = Unset
    /\ reply' = NoReply
    /\ network' = NoNetwork
    /\ ret' = Unset
    /\ objets' = Objets(a.messages, <<>>)

\* generer_reponse_ia called on its own.
StartDirect ==
    /\ pc = "idle"
    /\ \E m \in {None, <<>>, TXT_MIXTE, TXT_GAZ}, p \in {None, PROMPT_CHATBOT},
          h \in DirectHistories, c \in {None, <<" ", "k", " ">>},
          mo \in {"", MODELE_PAR_DEFAUT}, d \in {"energy", "email"} :
          BeginCall("direct",
                    Args(m, p, h, c, mo, TEMPERATURE_CHATBOT, TOKENS_MAX_CHATBOT, d))
    /\ UNCHANGED <<Groq, environ, secrets, session_state, email>>

\* One run of the chatbot page: the button, the chat input, and the call
\* when a question was submitted.
ChatRun ==
    /\ pc = "idle"
    /\ \E effacer_historique \in BOOLEAN, question_utilisateur \in Questions \cup {None},
          modele_choisi \in Modeles, temperature \in Temperatures :
          LET historique == IF effacer_historique THEN <<>> ELSE session_state IN
          IF Truthy(question_utilisateur)
          THEN /\ Len(historique) < 2 * MaxTurns
               /\ session_state' =
                      Append(historique, Message("user", question_utilisateur))
               /\ BeginCall("chatbot",
                            Args(None, PROMPT_CHATBOT, SomeList(session_state'), None,
                                 modele_choisi, temperature, TOKENS_PAGE_CHATBOT,
                                 "energy"))
          ELSE /\ session_state' = historique
               /\ UNCHANGED <<pc, caller, args, messages_complets, cle_resolue,
                              reply, network, ret, objets>>
    /\ UNCHANGED <<Groq, environ, secrets, email>>

\* generer_reponse_email, up to its call of generer_reponse_ia.
StartEmail ==
    /\ pc = "idle"
    /\ \E texte_email \in TextesEmail, ton \in Tons, langue \in Langues,
          instructions \in Instructions,
          tokens_max \in {TOKENS_MAX_EMAIL, TOKENS_PAGE_EMAIL} :
          /\ email' = Email(texte_email, ton, langue, instructions)
          /\ BeginCall("email",
                       generer_reponse_email(email', None, MODELE_PAR_DEFAUT,
                                             TEMPERATURE_EMAIL, tokens_max))
    /\ UNCHANGED <<Groq, environ, secrets, session_state>>

\* construire_messages, called before the try block: what it raises leaves
\* generer_reponse_ia.
Build ==
    /\ pc = "build"
    /\ IF HistoryRaises(args.messages)
       THEN /\ pc' = "raised"
            /\ objets' = Objets(HistoriqueApres(objets.historique), <<>>)
            /\ UNCHANGED messages_complets
       ELSE /\ pc' = "resolve"
            /\ messages_complets' =
                   construire_messages(args.message_utilisateur, args.prompt_systeme,
                                       args.messages)
            /\ objets' =
                   Objets(HistoriqueApres(objets.historique),
                          IdentitesMessages(args.message_utilisateur,
                                            args.prompt_systeme, args.messages))
    \* historique_complet is the list of the session itself.
    /\ session_state' =
           IF caller = "chatbot" THEN objets'.historique.list ELSE session_state
    /\ UNCHANGED <<Groq, environ, secrets, caller, email, args, cle_resolue, reply,
                   network, ret>>

\* The key resolution and the short circuit.
Resolve ==
    /\ pc = "resolve"
    /\ cle_resolue' = recuperer_cle_groq(args.cle_api)
    /\ IF CourtCircuit(cle_resolue')
       THEN /\ ret' = SecoursCourtCircuit(args.message_utilisateur, args.domaine_secours)
            /\ pc' = "done"
       ELSE /\ pc' = "call"
            /\ UNCHANGED ret
    /\ UNCHANGED <<Groq, environ, secrets, session_state, caller, email, args,
                   messages_complets, reply, network, objets>>

\* appeler_groq inside the try block, and the except clause.
CallGroq ==
    /\ pc = "call"
    /\ \E rep \in IF Groq = "None" THEN {NoReply} ELSE Replies(cle_resolue) :
          LET modele == ModeleEffectif(args.modele)
              o == appeler_groq(messages_complets, modele, args.temperature,
                                args.tokens_max, cle_resolue, rep)
          IN  /\ reply' = rep
              /\ network' =
                     [clients |-> o.clients, requests |-> o.requests,
                      sent |-> IF o.requests = 0 THEN <<>>
                               ELSE <<Request(messages_complets, modele,
                                              args.temperature, args.tokens_max,
                                              cle_resolue)>>,
                      exc |-> IF o.raised THEN o.value ELSE ""]
              /\ ret' = IF o.raised
                        THEN SecoursException(args.message_utilisateur,
                                              args.domaine_secours)
                        ELSE o.value
    /\ pc' = "done"
    /\ UNCHANGED <<Groq, environ, secrets, session_state, caller, email, args,
                   messages_complets, cle_resolue, objets>>

\* Mutant: the page stores the answer only when it is not empty.
Return_skip_empty ==
    /\ pc \in {"done", "raised"}
    /\ session_state' =
           IF caller = "chatbot" /\ pc = "done" /\ Truthy(ret)
           THEN Append(session_state, Message("assistant", ret))
           ELSE session_state
    /\ pc' = "idle" /\ caller' = "none" /\ email' = NoEmail /\ args' = NoArgs
    /\ messages_complets' = <<>> /\ cle_resolue' = Unset /\ reply' = NoReply
    /\ network' = NoNetwork /\ ret' = Unset /\ objets' = NoObjets
    /\ UNCHANGED <<Groq, environ, secrets>>

\* The call is over: the chatbot page renders and stores the answer; an
\* exception that left generer_reponse_ia ends the page run.
Return ==
    /\ pc \in {"done", "raised"}
    /\ session_state' =
           IF caller = "chatbot" /\ pc = "done"
           THEN Append(session_state, Message("assistant", ret))
           ELSE session_state
    /\ pc' = "idle" /\ caller' = "none" /\ email' = NoEmail /\ args' = NoArgs
    /\ messages_complets' = <<>> /\ cle_resolue' = Unset /\ reply' = NoReply
    /\ network' = NoNetwork /\ ret' = Unset /\ objets' = NoObjets
    /\ UNCHANGED <<Groq, environ, secrets>>

\* Calls of generer_reponse_ia and generer_reponse_email.
Next == StartDirect \/ StartEmail \/ Build \/ Resolve \/ CallGroq \/ Return

Spec == Init /\ [][Next]_vars

\* One session of the chatbot page.
NextChat == ChatRun \/ Build \/ Resolve \/ CallGroq \/ Return

SpecChat == Init /\ [][NextChat]_vars

\* ---------------------------------------------- the functions on their own
\* recuperer_cle_groq under every environment and secret store.
InitCle ==
    /\ Groq = "class"
    /\ environ \in EnvKeys
    /\ secrets \in Secrets
    /\ session_state = <<>>
    /\ Idle

ApplyCle ==
    /\ pc = "idle"
    /\ \E cle_explicite \in ExplicitKeys :
          /\ args' = [NoArgs EXCEPT !.cle_api = cle_explicite]
          /\ ret' = recuperer_cle_groq(cle_explicite)
    /\ caller' = "recuperer_cle_groq"
    /\ pc' = "done"
    /\ UNCHANGED <<Groq, environ, secrets, session_state, email, messages_complets,
                   cle_resolue, reply, network, objets>>

SpecCle == InitCle /\ [][ApplyCle]_vars

InitPure ==
    /\ Groq = "class"
    /\ environ = None
    /\ secrets = Secret("raise", <<>>, 0)
    /\ session_state = <<>>
    /\ Idle

\* reponse_de_secours on every text and domain.
ApplyFallback ==
    /\ pc = "idle"
    /\ \E texte_utilisateur \in Texts, domaine \in Domaines :
          /\ args' = [NoArgs EXCEPT !.message_utilisateur = texte_utilisateur,
                                    !.domaine_secours = domaine]
          /\ ret' = reponse_de_secours(texte_utilisateur, domaine)
    /\ caller' = "reponse_de_secours"
    /\ pc' = "done"
    /\ UNCHANGED <<Groq, environ, secrets, session_state, email, messages_complets,
                   cle_resolue, reply, network, objets>>

SpecFallback == InitPure /\ [][ApplyFallback]_vars

\* construire_messages on every prompt, history and current text.
ApplyBuild ==
    /\ pc = "idle"
    /\ \E message_utilisateur \in {None, <<>>, TXT_AUTRE},
          prompt_systeme \in {None, <<>>, PROMPT_CHATBOT}, historique \in Histories :
          /\ args' = [NoArgs EXCEPT !.message_utilisateur = message_utilisateur,
                                    !.prompt_systeme = prompt_systeme,
                                    !.messages = historique]
          /\ IF HistoryRaises(historique)
             THEN /\ pc' = "raised" /\ messages_complets' = <<>>
                  /\ objets' = Objets(HistoriqueApres(historique), <<>>)
             ELSE /\ pc' = "done"
                  /\ messages_complets' =
                         construire_messages(message_utilisateur, prompt_systeme,
                                             historique)
                  /\ objets' =
                         Objets(HistoriqueApres(historique),
                                IdentitesMessages(message_utilisateur, prompt_systeme,
                                                  historique))
    /\ caller' = "construire_messages"
    /\ UNCHANGED <<Groq, environ, secrets, session_state, email, cle_resolue, reply,
                   network, ret>>

SpecBuild == InitPure /\ [][ApplyBuild]_vars

\* ------------------------------------------------------------------- claims
\* r is t without its leading and trailing whitespace: a slice of t that
\* neither starts nor ends with whitespace, all of t outside it whitespace.
IsTrimOf(r, t) ==
    /\ \E i \in 1..(Len(t) + 1), j \in 0..Len(t) :
          /\ r = SubSeq(t, i, j)
          /\ \A k \in 1..Len(t) : (k < i \/ k > j) => t[k] \in Whitespace
    /\ r # <<>> => (r[1] \notin Whitespace /\ r[Len(r)] \notin Whitespace)

\* The completion call of the running call raised.
CompletionRaised == network.exc # ""

\* C1: whenever the completion call raises (SDK missing, client construction,
\* authentication, transport, malformed response object), generer_reponse_ia
\* returns normally and returns reponse_de_secours(message_utilisateur or "",
\* domaine_secours).
C1_RaiseGivesFallback ==
    CompletionRaised =>
        /\ pc = "done"
        /\ ret = reponse_de_secours(OrEmpty(args.message_utilisateur),
                                    args.domaine_secours)

\* A transport error on a call for the email domain whose text holds keywords.
C1_Witness ==
    /\ pc = "done" /\ caller = "direct"
    /\ network.exc = "APIConnectionError"
    /\ args.message_utilisateur = TXT_MIXTE /\ args.domaine_secours = "email"
    /\ ret = REPONSE_GENERIQUE

\* C2: no exception leaves generer_reponse_ia, whatever the history: a
\* failure of any step, the building of the messages included, ends in the
\* fallback answer.
C2_NoExceptionEscapes ==
    /\ pc # "raised"
    /\ (pc = "done" /\ CompletionRaised) =>
           ret = reponse_de_secours(OrEmpty(args.message_utilisateur),
                                    args.domaine_secours)

\* C3: every failure category ends in the fallback answer; in particular a
\* completion whose first choice has no content gives the fallback text, not
\* the empty text.
C3_EmptyPayloadGivesFallback ==
    (pc = "done"
        /\ (CompletionRaised \/ (reply.kind = "content" /\ ~Truthy(reply.content))))
    => ret = reponse_de_secours(OrEmpty(args.message_utilisateur),
                                args.domaine_secours)

\* C4: with the SDK missing and no key resolved, generer_reponse_ia returns
\* reponse_de_secours(message_utilisateur or "", domaine_secours) at once, and
\* the call builds no client and sends no request.
C4_ShortCircuit ==
    (Groq = "None" /\ cle_resolue = None) =>
        /\ pc = "done"
        /\ ret = reponse_de_secours(OrEmpty(args.message_utilisateur),
                                    args.domaine_secours)
        /\ network.clients = 0 /\ network.requests = 0 /\ network.sent = <<>>
        /\ reply = NoReply

C4_Witness ==
    /\ Groq = "None" /\ cle_resolue = None /\ pc = "done"
    /\ args.message_utilisateur = TXT_MIXTE /\ args.domaine_secours = "email"
    /\ ret = REPONSE_GENERIQUE /\ network = NoNetwork

\* The question of the running chatbot call: the last entry of the history.
QuestionPosee == session_state[Len(session_state)].content

\* The running call answered with a fallback text.
CompletionFailed == CompletionRaised \/ (Groq = "None" /\ cle_resolue = None)

\* C5: when the chatbot page submits a question and the completion path
\* fails, the answer is the canned paragraph of the question's keywords: the
\* tariff paragraph for a tariff keyword, the gas paragraph for a gas keyword
\* alone.
C5_ChatFallbackIsTopical ==
    (caller = "chatbot" /\ pc = "done" /\ CompletionFailed) =>
        ret = reponse_de_secours(QuestionPosee, "energy")

\* The entries of historique whose content is non-empty, as messages.
KeptEntries(historique) ==
    LET kept == SelectSeq(historique.list,
                          LAMBDA e : e.has_content /\ e.content \notin {None, <<>>})
    IN  [i \in 1..Len(kept) |->
            Message(IF kept[i].has_role THEN kept[i].role ELSE "user", kept[i].content)]

\* C6: the list construire_messages returns has no entry with empty content
\* and is: the system prompt if any, then the history entries with non-empty
\* content in their order, then the current user text if any.
C6_BuildOrdered ==
    (caller = "construire_messages" /\ pc = "done") =>
        LET m == args.message_utilisateur
            p == args.prompt_systeme
            h == args.messages
            sys == IF p \in {None, <<>>} THEN <<>> ELSE <<Message("system", p)>>
            cur == IF m \in {None, <<>>} THEN <<>> ELSE <<Message("user", m)>>
            mid == IF h.none THEN <<>> ELSE KeptEntries(h)
        IN  /\ \A i \in 1..Len(messages_complets) :
                  messages_complets[i].content \notin {None, <<>>}
            /\ messages_complets = sys \o mid \o cur

\* A prompt, a history with an empty entry between two kept ones, a text.
C6_Witness ==
    /\ caller = "construire_messages" /\ pc = "done"
    /\ args.prompt_systeme = PROMPT_CHATBOT /\ args.message_utilisateur = TXT_AUTRE
    /\ args.messages =
           SomeList(<<Entry(TRUE, "user", TRUE, TXT_TARIF),
                      Entry(TRUE, "assistant", TRUE, <<>>)>>)
    /\ messages_complets =
           <<Message("system", PROMPT_CHATBOT), Message("user", TXT_TARIF),
             Message("user", TXT_AUTRE)>>

\* The key each source yields, None when it yields none.
SourceExplicite ==
    IF args.cle_api = None \/ \A k \in 1..Len(args.cle_api) : args.cle_api[k] \in Whitespace
    THEN None ELSE args.cle_api
SourceEnv == IF environ \in {None, <<>>} THEN None ELSE environ
SourceSecrets ==
    CASE secrets.kind = "str" /\ secrets.s # <<>> -> secrets.s
      [] secrets.kind = "int" /\ secrets.n = 42 -> <<"4", "2">>
      [] OTHER -> None

\* C7: recuperer_cle_groq returns the explicit argument trimmed when it is
\* non-blank, whatever the other sources hold; else the environment variable
\* when non-empty; else the secret when the store yields one, a failing store
\* counting as no key; else None.
C7_ResolutionOrder ==
    (caller = "recuperer_cle_groq" /\ pc = "done") =>
        IF SourceExplicite # None THEN IsTrimOf(ret, SourceExplicite)
        ELSE IF SourceEnv # None THEN ret = SourceEnv
        ELSE IF SourceSecrets # None THEN ret = SourceSecrets
        ELSE ret = None

\* " abc " with a key in the environment and one in the secret store.
C7_Witness ==
    /\ caller = "recuperer_cle_groq" /\ pc = "done"
    /\ args.cle_api = <<" ", "a", "b", "c", " ">>
    /\ environ = <<"e">> /\ secrets.kind = "str" /\ secrets.s = <<"s">>
    /\ ret = <<"a", "b", "c">>

\* texte, lower-cased, holds one of the words.
HoldsOneOf(texte, mots) ==
    \E mot \in mots : \E i \in 1..Len(texte) :
        /\ i + Len(mot) - 1 <= Len(texte)
        /\ \A k \in 1..Len(mot) : LowerChar(texte[i + k - 1]) = mot[k]

TarifWords == {mots_cles_tarifs[k] : k \in 1..Len(mots_cles_tarifs)}
GazWords == {mots_cles_gaz[k] : k \in 1..Len(mots_cles_gaz)}

\* C8: for the energy domain reponse_de_secours returns the tariff paragraph
\* when the lower-cased text holds a tariff keyword (a gas keyword or not),
\* else the gas paragraph when it holds a gas keyword, else the generic
\* message; for the email domain it returns the generic message.
C8_FallbackSelection ==
    (caller = "reponse_de_secours" /\ pc = "done") =>
        LET texte == args.message_utilisateur
            tarif == HoldsOneOf(texte, TarifWords)
            gaz == HoldsOneOf(texte, GazWords)
        IN  /\ (args.domaine_secours = "energy" /\ tarif) => ret = REPONSE_TARIFS
            /\ (args.domaine_secours = "energy" /\ ~tarif /\ gaz) => ret = REPONSE_GAZ
            /\ (args.domaine_secours = "energy" /\ ~tarif /\ ~gaz) =>
                   ret = REPONSE_GENERIQUE
            /\ args.domaine_secours = "email" => ret = REPONSE_GENERIQUE
            /\ Cardinality({REPONSE_TARIFS, REPONSE_GAZ, REPONSE_GENERIQUE}) = 3

\* A text with a gas keyword, then a tariff keyword spelled in capitals.
C8_Witness ==
    /\ caller = "reponse_de_secours" /\ pc = "done"
    /\ args.domaine_secours = "energy"
    /\ args.message_utilisateur = TXT_GAZ \o <<" ">> \o TXT_TARIF
    /\ ret = REPONSE_TARIFS

TonsConnus == {PROFESSIONNEL, EMPATHIQUE, FERME, CONVIVIAL}
LanguesConnues == {FR, EN}

\* C9: generer_reponse_email hands generer_reponse_ia the same prompt, user
\* turn and fallback domain for an unknown tone as for "professionnel", for an
\* unknown language as for "fr", and for a known key in any case as for the
\* key in lower case.
C9_UnknownKeysDefault ==
    caller = "email" =>
        LET ton == IF Lower(email.ton) \in TonsConnus THEN Lower(email.ton)
                   ELSE PROFESSIONNEL
            langue == IF Lower(email.langue) \in LanguesConnues THEN Lower(email.langue)
                      ELSE FR
            same == generer_reponse_email(
                        Email(email.texte_email, ton, langue,
                              email.instructions_supplementaires),
                        args.cle_api, args.modele, args.temperature, args.tokens_max)
        IN  /\ args.prompt_systeme = same.prompt_systeme
            /\ args.message_utilisateur = same.message_utilisateur
            /\ args.domaine_secours = same.domaine_secours
            /\ args.messages = NoneList

C9_Witness ==
    /\ caller = "email" /\ pc = "done"
    /\ email.ton = <<"I", "N", "V", "A", "L", "I", "D">>
    /\ email.langue = <<"d", "e">>
    /\ args.prompt_systeme = PROMPT_EMAIL_FR
    /\ args.domaine_secours = "email"

\* C10: when the completion succeeds with a text, generer_reponse_email
\* returns that text without its leading and trailing whitespace, nothing
\* added, for every tone, language and extra instructions.
C10_ReplyIsTrimmedText ==
    (caller = "email" /\ pc = "done" /\ reply.kind = "content" /\ reply.content # None)
        => IsTrimOf(ret, reply.content)

C10_Witness ==
    /\ caller = "email" /\ pc = "done"
    /\ reply = Reply("content", "", <<" ", "B", " ", "j", "\n">>)
    /\ ret = <<"B", " ", "j">>
    /\ email.instructions_supplementaires = <<" ", "c", " ">>

\* The positions of a call of generer_reponse_ia that the state machine
\* START -> BUILD_MESSAGES -> RESOLVE_KEY -> (SHORT_CIRCUIT_FALLBACK |
\* CALL_API) -> DONE names, "idle" being no call.
PositionsOfACall == {"idle", "build", "resolve", "call", "done"}

\* C11: a call of generer_reponse_ia sends at most one completion request,
\* never a second one after a failure, and every failure of a step leads to
\* the fallback answer and to DONE: a call is at a position of the state
\* machine, and a call that is over returned a text.
C11_OneRequestThenDone ==
    /\ network.clients <= 1 /\ network.requests <= 1 /\ Len(network.sent) <= 1
    /\ (CompletionRaised /\ reply.kind = "raise") => network.requests = 1
    /\ pc \in PositionsOfACall
    /\ pc = "done" => ret \notin {Unset, None}

\* The part of C11 that holds of the code: at most one request per call, and
\* a call that returns returns a text.
C11_AtMostOneRequest ==
    /\ network.clients <= 1 /\ network.requests <= 1 /\ Len(network.sent) <= 1
    /\ pc = "done" => ret \notin {Unset, None}

\* C12: construire_messages and generer_reponse_ia leave the history they
\* are given as it was, the list and each entry, however the call ends, and
\* no entry of the list they build is an entry object of the history.
C12_HistoryUntouched ==
    pc \in {"resolve", "call", "done", "raised"} =>
        /\ objets.historique = args.messages
        /\ caller = "chatbot" => session_state = args.messages.list
        /\ pc # "raised" =>
               /\ Len(objets.identites) = Len(messages_complets)
               /\ \A i \in 1..Len(objets.identites) : objets.identites[i] = 0

\* A call that fell back, given a history with an entry kept and one dropped.
C12_Witness ==
    /\ caller = "direct" /\ pc = "done" /\ CompletionRaised
    /\ args.messages =
           SomeList(<<Entry(TRUE, "user", TRUE, TXT_TARIF),
                      Entry(TRUE, "assistant", TRUE, <<>>)>>)
    /\ objets.historique = args.messages
    /\ Len(messages_complets) = 3
    /\ objets.identites = <<0, 0, 0>>

\* C13: generer_reponse_email calls generer_reponse_ia with the fallback
\* domain "email" and no history, so when the SDK is missing or the
\* completion call raises it returns the generic message, whatever the email
\* text (keywords included), the tone and the language.
C13_EmailFallbackIsGeneric ==
    caller = "email" =>
        /\ args.domaine_secours = "email"
        /\ args.messages = NoneList
        /\ (pc = "done" /\ CompletionFailed) => ret = REPONSE_GENERIQUE

\* An email holding a gas and a tariff keyword, the request failing.
C13_Witness ==
    /\ caller = "email" /\ pc = "done"
    /\ email.texte_email = TXT_MIXTE
    /\ Contains(Lower(TXT_MIXTE), Lower(args.message_utilisateur))
    /\ AnyIn(mots_cles_tarifs, Lower(args.message_utilisateur))
    /\ network.exc = "AuthenticationError"
    /\ ret = REPONSE_GENERIQUE

\* h is user, assistant, user, assistant, ... from its first entry on.
Alternates(h) ==
    \A i \in 1..Len(h) :
        /\ h[i].dict /\ h[i].has_role /\ h[i].has_content
        /\ h[i].role = IF i % 2 = 1 THEN "user" ELSE "assistant"

\* Between two page runs the history is empty or ends with an answer; while
\* a question is being answered it ends with that question.
ChatHistoryOK(p, h) ==
    /\ Alternates(h)
    /\ Len(h) % 2 = IF p = "idle" THEN 0 ELSE 1

\* C14: after any page runs of the chatbot the history is empty or
\* alternates user and assistant entries from a user entry to an assistant
\* entry: a question appends one user entry, to the history or to the
\* cleared history, then the call leaves the history alone, then one
\* assistant entry holding the returned text (empty or not) is appended; a
\* run without a question leaves the history as it was or empties it.
C14_ChatHistoryAlternates ==
    [][/\ ChatHistoryOK(pc, session_state)
       /\ ChatHistoryOK(pc', session_state')
       /\ (pc = "idle" /\ pc' = "build") =>
              \E base \in {<<>>, session_state} :
                  /\ Len(session_state') = Len(base) + 1
                  /\ SubSeq(session_state', 1, Len(base)) = base
                  /\ session_state'[Len(base) + 1].role = "user"
                  /\ Truthy(session_state'[Len(base) + 1].content)
       /\ (pc = "idle" /\ pc' = "idle") => session_state' \in {<<>>, session_state}
       /\ (pc \in {"build", "resolve", "call"}) => session_state' = session_state
       /\ (pc = "done") =>
              /\ pc' = "idle"
              /\ session_state' = Append(session_state, Message("assistant", ret))
      ]_vars

\* Two questions answered, the first by an empty completion, the second by
\* the fallback.
C14_Witness ==
    /\ pc = "idle"
    /\ Len(session_state) = 4
    /\ session_state[1] = Message("user", TXT_TARIF)
    /\ session_state[2] = Message("assistant", <<>>)
    /\ session_state[3] = Message("user", TXT_GAZ)
    /\ session_state[4] = Message("assistant", REPONSE_GENERIQUE)

====
